---- MODULE Spec2Model ----
(***************************************************************************)
(* Model of Source_viz/Align_Brain_Plot.py: crop-and-key of a screenshot,  *)
(* horizontal compositing with overlap, vertical stacking of the two       *)
(* hemispheres, legend overlay, and the pipeline that chains them.         *)
(*                                                                         *)
(* An image array is a sequence of rows, a row a sequence of pixels, a     *)
(* pixel a tuple of channel values (3 for RGB, 4 for RGBA).                *)
(***************************************************************************)
EXTENDS Integers, Sequences, FiniteSets, TLC

VARIABLES
    pc,                  \* control location of the modelled call
    image,               \* crop_brain_and_make_transparent: the screenshot passed in
    cropped_screenshot,  \* crop_brain_and_make_transparent: the RGBA array it builds
    openFigs,            \* pyplot's registry: open figures, counted per creating function
    brain_list,          \* align_multiple_brains: the figures passed in, each as the image savefig renders
    overlap_ratio,       \* align_multiple_brains: the ratio passed in, as <<numerator, denominator>>
    new_image,           \* align_multiple_brains: the canvas
    offsets,             \* align_multiple_brains: the box of each paste so far
    stage,               \* pipeline: the statement it is at
    hemis,               \* pipeline: the composites collected, each with the hemisphere it was made for
    concated_hemis,      \* pipeline: what concatenate_hemis drew in its two rows
    calls,               \* pipeline: the stages called so far in this invocation
    written,             \* pipeline: files written in this invocation
    runs                 \* pipeline invocations started

vars == <<pc, image, cropped_screenshot, openFigs, brain_list, overlap_ratio,
          new_image, offsets, stage, hemis, concated_hemis, calls, written, runs>>

pipeVars == <<stage, hemis, concated_hemis, calls, written, runs>>

\* ---------------------------------------------------------------- bounds
MaxSide == 3       \* longer side of a screenshot, in pixels
MaxN == 3          \* figures in a brain_list
MaxBW == 2         \* width of a rendered figure
MaxShots == 2      \* screenshots the renderer returns for one hemisphere
MaxRuns == 2       \* pipeline invocations in one process

\* Channel triples a screenshot pixel is drawn from: the white background,
\* a colour with some channels at 255, and a colour with none.
Pix == { <<255, 255, 255>>, <<255, 255, 0>>, <<0, 0, 0>> }

\* Shapes (rows, columns) of a screenshot: tall and narrow, or short and wide.
Shapes == ((1..MaxSide) \X (1..2)) \cup ((1..2) \X (1..MaxSide))

Screenshots ==
    UNION { [1..s[1] -> [1..s[2] -> Pix]] : s \in Shapes }

\* No figure open, per creating function.
NoFigs == [crop |-> 0, concat |-> 0, colorbar |-> 0]

\* An image of size (w, h): px[x][y] is the RGBA pixel at column x, row y.
NoImage == [size |-> <<0, 0>>, px |-> <<>>]

\* overlap_ratio=0.2
DefaultRatio == <<1, 5>>

\* Nothing drawn by concatenate_hemis yet.
NoStack == [top |-> "", bottom |-> ""]

\* The pipeline is not running.
NotInPipeline ==
    /\ stage = "idle"
    /\ hemis = <<>>
    /\ concated_hemis = NoStack
    /\ calls = <<>>
    /\ written = 0
    /\ runs = 0

\* ------------------------------------------- crop_brain_and_make_transparent
\* image[mask] / image[:, mask]: numpy boolean-mask indexing keeps exactly the
\* entries whose mask is True, in order.
RECURSIVE MaskSelect(_, _)
MaskSelect(seq, mask) ==
    IF seq = <<>> THEN <<>>
    ELSE LET n == Len(seq)
             front == MaskSelect(SubSeq(seq, 1, n - 1), SubSeq(mask, 1, n - 1))
         IN IF mask[n] THEN Append(front, seq[n]) ELSE front

\* (image != 255).any(-1)
nonwhite_pix(img) ==
    [r \in 1..Len(img) |->
        [c \in 1..Len(img[r]) |-> \E k \in 1..3 : img[r][c][k] # 255]]

\* nonwhite_pix.any(1)
nonwhite_row(img) ==
    [r \in 1..Len(img) |-> \E c \in 1..Len(img[r]) : nonwhite_pix(img)[r][c]]

\* nonwhite_pix.any(0)
nonwhite_col(img) ==
    [c \in 1..Len(img[1]) |-> \E r \in 1..Len(img) : nonwhite_pix(img)[r][c]]

\* image[nonwhite_row][:, nonwhite_col]
Crop(img) ==
    LET rows == MaskSelect(img, nonwhite_row(img))
    IN [r \in 1..Len(rows) |-> MaskSelect(rows[r], nonwhite_col(img))]

\* Alpha with np.any in place of np.all: transparent as soon as one channel is 255.
Alpha_AnyChannel(px) == IF \E k \in 1..3 : px[k] = 255 THEN 0 ELSE 255

\* np.where(np.all(px == [255, 255, 255], axis=-1), 0, 255) for one pixel
Alpha(px) == IF \A k \in 1..3 : px[k] = 255 THEN 0 ELSE 255

\* np.dstack((cropped_screenshot, alpha))
DStack(arr) ==
    [r \in 1..Len(arr) |-> [c \in 1..Len(arr[r]) |-> Append(arr[r][c], Alpha(arr[r][c]))]]

\* The whole call: build the RGBA array and open one figure showing it. The
\* figure is returned, never closed.
crop_brain_and_make_transparent ==
    /\ pc = "crop"
    /\ cropped_screenshot' = DStack(Crop(image))
    /\ openFigs' = [openFigs EXCEPT !.crop = @ + 1]
    /\ pc' = "cropped"
    /\ UNCHANGED <<image, brain_list, overlap_ratio, new_image, offsets>>
    /\ UNCHANGED pipeVars

InitCrop ==
    /\ pc = "crop"
    /\ image \in Screenshots
    /\ cropped_screenshot = <<>>
    /\ openFigs = NoFigs
    /\ brain_list = <<>>
    /\ overlap_ratio = DefaultRatio
    /\ new_image = NoImage
    /\ offsets = <<>>
    /\ NotInPipeline

NextCrop == crop_brain_and_make_transparent

SpecCrop == InitCrop /\ [][NextCrop]_vars

\* ---------------------------------------------- properties of the crop
White == <<255, 255, 255>>

\* Rows and columns of the screenshot that hold a pixel other than white.
ContentRows == { r \in 1..Len(image) : \E c \in 1..Len(image[r]) : image[r][c] # White }
ContentCols == { c \in 1..Len(image[1]) : \E r \in 1..Len(image) : image[r][c] # White }

Min(S) == CHOOSE x \in S : \A y \in S : x <= y
Max(S) == CHOOSE x \in S : \A y \in S : y <= x
Nth(S, n) == CHOOSE x \in S : Cardinality({ y \in S : y < x }) = n - 1

RGBOf(arr) ==
    [r \in 1..Len(arr) |-> [c \in 1..Len(arr[r]) |-> SubSeq(arr[r][c], 1, 3)]]

\* C3: for a screenshot with a non-background pixel, the cropped grid is the
\* minimal bounding rectangle of the non-background pixels: every row from the
\* first to the last row with content and every column from the first to the
\* last column with content, all-white rows and columns in between included.
C3_BoundingRectangle ==
    (pc = "cropped" /\ ContentRows # {}) =>
        RGBOf(cropped_screenshot) =
            [r \in 1..(Max(ContentRows) - Min(ContentRows) + 1) |->
                [c \in 1..(Max(ContentCols) - Min(ContentCols) + 1) |->
                    image[Min(ContentRows) + r - 1][Min(ContentCols) + c - 1]]]

\* C4: every pixel of the output grid has alpha 0 if its three colour channels
\* are all 255 and alpha 255 otherwise, no other alpha occurs, and its colour
\* channels are those of the input pixel it was taken from.
C4_AlphaKey ==
    pc = "cropped" =>
        /\ Len(cropped_screenshot) = Cardinality(ContentRows)
        /\ \A r \in 1..Len(cropped_screenshot) :
              /\ Len(cropped_screenshot[r]) = Cardinality(ContentCols)
              /\ \A c \in 1..Len(cropped_screenshot[r]) :
                    LET p == cropped_screenshot[r][c]
                    IN /\ Len(p) = 4
                       /\ p[4] \in {0, 255}
                       /\ (p[4] = 0) <=> (p[1] = 255 /\ p[2] = 255 /\ p[3] = 255)
                       /\ SubSeq(p, 1, 3) = image[Nth(ContentRows, r)][Nth(ContentCols, c)]

\* A crop whose output holds a transparent pixel and an opaque pixel that has
\* channels at 255.
C4_Witness ==
    /\ pc = "cropped"
    /\ \E r \in 1..Len(cropped_screenshot) : \E c \in 1..Len(cropped_screenshot[r]) :
          cropped_screenshot[r][c] = <<255, 255, 255, 0>>
    /\ \E r \in 1..Len(cropped_screenshot) : \E c \in 1..Len(cropped_screenshot[r]) :
          cropped_screenshot[r][c] = <<255, 255, 0, 255>>

\* ------------------------------------------------- align_multiple_brains
\* Overlap ratios a caller may pass: inside [0, 1) and outside it.
Ratios == { <<-1, 2>>, <<0, 1>>, <<1, 5>>, <<1, 2>>, <<2, 3>>, <<1, 1>>, <<2, 1>> }

Heights == {1, 2}

\* Alpha layouts of a rendered figure: opaque, transparent, half-transparent
\* throughout, or opaque with a transparent first column.
Layouts == {"opaque", "clear", "semi", "edge"}

AlphaAt(layout, x, y) ==
    CASE layout = "opaque" -> 255
      [] layout = "clear"  -> 0
      [] layout = "semi"   -> 128
      [] layout = "edge"   -> IF x = 0 THEN 0 ELSE 255

\* The image savefig renders for the figure at position i of the list: size
\* (w, h), one colour per figure, alpha from the layout.
Rendered(i, w, h, layout) ==
    [size |-> <<w, h>>,
     px   |-> [x \in 0..(w - 1) |-> [y \in 0..(h - 1) |->
                 <<60 * i, 100, 200, AlphaAt(layout, x, y)>>]]]

\* Lists of rendered figures: all of size (w, h), except that the figure at
\* position odd (if any) is one pixel wider or one pixel taller.
BrainLists ==
    { <<>> } \cup
    UNION { UNION { { [i \in 1..n |->
                          Rendered(i,
                                   IF i = odd[1] THEN w + odd[2][1] ELSE w,
                                   IF i = odd[1] THEN h + odd[2][2] ELSE h,
                                   lay[i])] :
                      lay \in [1..n -> Layouts],
                      odd \in {<<0, <<0, 0>>>>} \cup ((1..n) \X {<<1, 0>>, <<0, 1>>}) } :
                    w \in 1..MaxBW, h \in Heights } :
            n \in 1..MaxN }

\* int(a / b) for b > 0: Python's int() truncates toward zero.
Trunc(a, b) == IF a >= 0 THEN a \div b ELSE -((-a) \div b)

\* The overlap truncated per image and then multiplied, not truncated once.
total_width_PerImage(width, n, overlap) ==
    width * n - (n - 1) * Trunc(overlap[1] * width, overlap[2])

\* width * len(images) - int(overlap * width * (len(images) - 1))
total_width(width, n, overlap) ==
    width * n - Trunc(overlap[1] * width * (n - 1), overlap[2])

\* The overlap truncated once over the whole offset, not per image.
x_offset_Scaled(index, width, overlap) ==
    index * width - Trunc(overlap[1] * width * index, overlap[2])

\* index * (width - int(overlap * width))
x_offset(index, width, overlap) ==
    index * (width - Trunc(overlap[1] * width, overlap[2]))

\* Image.new('RGBA', (w, h)): every pixel (0, 0, 0, 0)
NewRGBA(w, h) ==
    [size |-> <<w, h>>,
     px   |-> [x \in 0..(w - 1) |-> [y \in 0..(h - 1) |-> <<0, 0, 0, 0>>]]]

\* paste without a mask: the pasted band replaces the canvas band.
Blend8_NoMask(mask, in1, in2) == in2

\* One band of one pixel under Image.paste with a mask value: in2 where the
\* mask is 255, in1 where it is 0, the rounded mix in between.
Blend8(mask, in1, in2) ==
    LET tmp == in1 * (255 - mask) + in2 * mask + 128
    IN ((tmp \div 256) + tmp) \div 256

\* new_image.paste(im, (x0, 0), im): the part of im that falls on the canvas,
\* every band mixed under im's own alpha band.
Paste(canvas, im, x0) ==
    [canvas EXCEPT !.px =
        [x \in 0..(canvas.size[1] - 1) |-> [y \in 0..(canvas.size[2] - 1) |->
            IF x0 <= x /\ x < x0 + im.size[1] /\ y < im.size[2]
            THEN LET src == im.px[x - x0][y]
                 IN [b \in 1..4 |-> Blend8(src[4], canvas.px[x][y][b], src[b])]
            ELSE canvas.px[x][y]]]]

\* The paste loop over images[0 .. k-1].
RECURSIVE PasteLoop(_, _, _, _)
PasteLoop(images, k, width, overlap) ==
    IF k = 0
    THEN NewRGBA(total_width(width, Len(images), overlap), images[1].size[2])
    ELSE Paste(PasteLoop(images, k - 1, width, overlap), images[k],
               x_offset(k - 1, width, overlap))

\* The body of align_multiple_brains on the rendered figures. images[0] of an
\* empty list raises IndexError; Image.new raises ValueError on a negative width.
AlignBody ==
    IF brain_list = <<>>
    THEN /\ pc' = "raised"
         /\ UNCHANGED <<new_image, offsets>>
    ELSE LET width == brain_list[1].size[1]
             n     == Len(brain_list)
         IN IF total_width(width, n, overlap_ratio) < 0
            THEN /\ pc' = "raised"
                 /\ UNCHANGED <<new_image, offsets>>
            ELSE /\ new_image' = PasteLoop(brain_list, n, width, overlap_ratio)
                 /\ offsets' = [i \in 1..n |-> <<x_offset(i - 1, width, overlap_ratio), 0>>]
                 /\ pc' = "aligned"

\* Called directly on a list of figures: each is rendered, none is closed.
align_multiple_brains ==
    /\ pc = "align"
    /\ stage = "idle"
    /\ AlignBody
    /\ UNCHANGED <<image, cropped_screenshot, openFigs, brain_list, overlap_ratio>>
    /\ UNCHANGED pipeVars

\* convert_all: one crop_brain_and_make_transparent figure per screenshot, then
\* align_multiple_brains on those figures.
ConvertAllBody ==
    /\ pc = "convert"
    /\ openFigs' = [openFigs EXCEPT !.crop = @ + Len(brain_list)]
    /\ AlignBody
    /\ UNCHANGED <<image, cropped_screenshot, brain_list, overlap_ratio>>

\* Called directly on a list of screenshots.
convert_all ==
    /\ stage = "idle"
    /\ ConvertAllBody
    /\ UNCHANGED pipeVars

InitAlign ==
    /\ pc \in {"align", "convert"}
    /\ image = <<>>
    /\ cropped_screenshot = <<>>
    /\ openFigs = NoFigs
    /\ brain_list \in BrainLists
    /\ overlap_ratio \in Ratios
    /\ new_image = NoImage
    /\ offsets = <<>>
    /\ NotInPipeline

NextAlign == align_multiple_brains \/ convert_all

SpecAlign == InitAlign /\ [][NextAlign]_vars

\* ------------------------------------------------------------- pipeline
\* The loop taking the right hemisphere first.
Hemispheres_Swapped == <<"rh", "lh">>

\* for hemi in ['lh', 'rh']
Hemispheres == <<"lh", "rh">>

\* What the renderer's screenshots of one hemisphere come to once cropped and
\* rendered: up to MaxShots opaque images of one size.
ShotLists ==
    { [i \in 1..n |-> Rendered(i, MaxBW, 1, "opaque")] : n \in 0..MaxShots }

\* A call of pipeline(...): fresh locals.
pipeline ==
    /\ stage \in {"idle", "returned", "raised"}
    /\ runs < MaxRuns
    /\ runs' = runs + 1
    /\ stage' = "render"
    /\ hemis' = <<>>
    /\ concated_hemis' = NoStack
    /\ calls' = <<>>
    /\ written' = 0
    /\ pc' = "idle"
    /\ UNCHANGED <<image, cropped_screenshot, openFigs, brain_list, overlap_ratio,
                   new_image, offsets>>

\* brain_list, clim = stc_to_screenshots(..., hemi=hemi, ...): the external
\* renderer returns a list of screenshots or raises.
stc_to_screenshots ==
    /\ stage = "render"
    /\ calls' = Append(calls, <<"stc_to_screenshots", Hemispheres[Len(hemis) + 1]>>)
    /\ \/ /\ brain_list' \in ShotLists
          /\ stage' = "convert"
          /\ pc' = "convert"
       \/ /\ stage' = "raised"
          /\ UNCHANGED <<brain_list, pc>>
    /\ UNCHANGED <<image, cropped_screenshot, openFigs, overlap_ratio, new_image,
                   offsets, hemis, concated_hemis, written, runs>>

\* aligned = convert_all(brain_list); hemis.append(aligned). After the second
\* hemisphere the loop ends. convert_all raises on an empty list; drawing or
\* rendering a figure may also raise, after some of the figures were opened.
pipeline_convert_all ==
    /\ stage = "convert"
    /\ overlap_ratio = DefaultRatio
    /\ calls' = Append(calls, <<"convert_all", Hemispheres[Len(hemis) + 1]>>)
    /\ \/ /\ ConvertAllBody
          /\ IF pc' = "raised"
             THEN /\ stage' = "raised"
                  /\ UNCHANGED hemis
             ELSE /\ hemis' = Append(hemis, [hemi |-> Hemispheres[Len(hemis) + 1],
                                             img  |-> new_image'])
                  /\ stage' = IF Len(hemis') = Len(Hemispheres) THEN "concat" ELSE "render"
       \/ /\ \E k \in 1..Len(brain_list) :
                openFigs' = [openFigs EXCEPT !.crop = @ + k]
          /\ pc' = "raised"
          /\ stage' = "raised"
          /\ UNCHANGED <<image, cropped_screenshot, brain_list, overlap_ratio,
                         new_image, offsets, hemis>>
    /\ UNCHANGED <<concated_hemis, written, runs>>

\* concated_hemis = concatenate_hemis(hemis[0], hemis[1]): a figure is opened,
\* hemis[0] is drawn in the top row and hemis[1] in the bottom row, the figure
\* is saved to a buffer and closed. An error raised once the figure exists and
\* before plt.close leaves it open; plt.figure itself may raise.
concatenate_hemis ==
    /\ stage = "concat"
    /\ calls' = Append(calls, <<"concatenate_hemis">>)
    /\ \/ /\ concated_hemis' = [top |-> hemis[1].hemi, bottom |-> hemis[2].hemi]
          /\ stage' = "legend"
          /\ UNCHANGED openFigs
       \/ /\ openFigs' = [openFigs EXCEPT !.concat = @ + 1]
          /\ stage' = "raised"
          /\ UNCHANGED concated_hemis
       \/ /\ stage' = "raised"
          /\ UNCHANGED <<openFigs, concated_hemis>>
    /\ UNCHANGED <<pc, image, cropped_screenshot, brain_list, overlap_ratio,
                   new_image, offsets, hemis, written, runs>>

\* fig = add_colorbar(clim, concated_hemis, label, filename, caption): a figure
\* is opened, the external colorbar routine draws or raises, the figure is
\* saved to <filename>.png and returned without being closed.
add_colorbar ==
    /\ stage = "legend"
    /\ calls' = Append(calls, <<"add_colorbar">>)
    /\ \/ /\ openFigs' = [openFigs EXCEPT !.colorbar = @ + 1]
          /\ written' = written + 1
          /\ stage' = "returned"
       \/ /\ openFigs' = [openFigs EXCEPT !.colorbar = @ + 1]
          /\ stage' = "raised"
          /\ UNCHANGED written
       \/ /\ stage' = "raised"
          /\ UNCHANGED <<openFigs, written>>
    /\ UNCHANGED <<pc, image, cropped_screenshot, brain_list, overlap_ratio,
                   new_image, offsets, hemis, concated_hemis, runs>>

InitPipe ==
    /\ pc = "idle"
    /\ image = <<>>
    /\ cropped_screenshot = <<>>
    /\ openFigs = NoFigs
    /\ brain_list = <<>>
    /\ overlap_ratio = DefaultRatio
    /\ new_image = NoImage
    /\ offsets = <<>>
    /\ NotInPipeline

NextPipe ==
    \/ pipeline
    \/ stc_to_screenshots
    \/ pipeline_convert_all
    \/ concatenate_hemis
    \/ add_colorbar

SpecPipe == InitPipe /\ [][NextPipe]_vars

\* ----------------------------------------- properties of the compositor
N == Len(brain_list)
W == brain_list[1].size[1]
H == brain_list[1].size[2]

SameSize == \A i \in 1..N : brain_list[i].size = brain_list[1].size
InRange == 0 <= overlap_ratio[1] /\ overlap_ratio[1] < overlap_ratio[2]

\* Image i (1-based position in brain_list) covers canvas position (x, y).
Covers(i, x, y) ==
    /\ offsets[i][1] <= x
    /\ x < offsets[i][1] + brain_list[i].size[1]
    /\ y < brain_list[i].size[2]

\* The pixel of image i that lands on canvas position (x, y).
SrcPix(i, x, y) == brain_list[i].px[x - offsets[i][1]][y]

CanvasPositions == (0..(new_image.size[1] - 1)) \X (0..(new_image.size[2] - 1))

\* C1: for N >= 1 images of common size (W, H) and a ratio o in [0, 1), the
\* canvas is W*N - floor(o*W*(N-1)) wide and H high; for o = 0 it is W*N wide.
C1_CanvasSize ==
    (pc = "aligned" /\ SameSize /\ InRange) =>
        /\ new_image.size =
              <<W * N - ((overlap_ratio[1] * W * (N - 1)) \div overlap_ratio[2]), H>>
        /\ overlap_ratio[1] = 0 => new_image.size[1] = W * N

\* A composite of several same-size images whose canvas is narrower than W*N.
C1_Witness ==
    /\ pc = "aligned" /\ SameSize /\ InRange
    /\ N >= 3
    /\ new_image.size[1] < W * N

\* C2: for same-size images and a ratio in [0, 1), the image at 0-based index
\* i is pasted with its left edge at x = i * (W - floor(o*W)) and its top edge
\* at y = 0; the last image's top-left pixel, when opaque and on the canvas, is
\* the canvas pixel at that position.
C2_PasteOffsets ==
    (pc = "aligned" /\ SameSize /\ InRange) =>
        /\ Len(offsets) = N
        /\ \A i \in 1..N :
              offsets[i] =
                  <<(i - 1) * (W - ((overlap_ratio[1] * W) \div overlap_ratio[2])), 0>>
        /\ LET x == (N - 1) * (W - ((overlap_ratio[1] * W) \div overlap_ratio[2]))
           IN (x < new_image.size[1] /\ brain_list[N].px[0][0][4] = 255) =>
                  new_image.px[x][0] = brain_list[N].px[0][0]

\* A composite of three same-size images with a non-zero overlap in pixels,
\* the last one opaque at its top-left corner.
C2_Witness ==
    /\ pc = "aligned" /\ SameSize /\ InRange
    /\ N = 3
    /\ offsets[3][1] > 0 /\ offsets[3][1] < 2 * W
    /\ brain_list[3].px[0][0][4] = 255

\* C5 as stated: every canvas pixel is the pixel of the highest-index image
\* that covers it and is opaque there, and fully transparent if no image is
\* opaque there.
C5_LastWriteWins ==
    pc = "aligned" =>
        \A pos \in CanvasPositions :
            LET opaque == { i \in 1..N : Covers(i, pos[1], pos[2])
                                          /\ SrcPix(i, pos[1], pos[2])[4] = 255 }
            IN new_image.px[pos[1]][pos[2]] =
                  IF opaque = {} THEN <<0, 0, 0, 0>>
                  ELSE SrcPix(Max(opaque), pos[1], pos[2])

\* C5, amended: at every canvas position where each covering image has alpha 0
\* or 255, the canvas pixel is the pixel of the highest-index image that is
\* opaque there, and fully transparent if none is.
C5_LastOpaqueWins ==
    pc = "aligned" =>
        \A pos \in CanvasPositions :
            LET cover  == { i \in 1..N : Covers(i, pos[1], pos[2]) }
                opaque == { i \in cover : SrcPix(i, pos[1], pos[2])[4] = 255 }
            IN (\A i \in cover : SrcPix(i, pos[1], pos[2])[4] \in {0, 255}) =>
                  new_image.px[pos[1]][pos[2]] =
                      IF opaque = {} THEN <<0, 0, 0, 0>>
                      ELSE SrcPix(Max(opaque), pos[1], pos[2])

\* A canvas position covered by two images, the later one transparent there
\* and the earlier one opaque, and another covered by two opaque images.
C5_Witness ==
    /\ pc = "aligned"
    /\ \E pos \in CanvasPositions : \E i, j \in 1..N :
          /\ i < j
          /\ Covers(i, pos[1], pos[2]) /\ Covers(j, pos[1], pos[2])
          /\ SrcPix(i, pos[1], pos[2])[4] = 255
          /\ SrcPix(j, pos[1], pos[2])[4] = 0
          /\ new_image.px[pos[1]][pos[2]] = SrcPix(i, pos[1], pos[2])
    /\ \E pos \in CanvasPositions : \E i, j \in 1..N :
          /\ i < j
          /\ Covers(i, pos[1], pos[2]) /\ Covers(j, pos[1], pos[2])
          /\ SrcPix(i, pos[1], pos[2])[4] = 255
          /\ SrcPix(j, pos[1], pos[2])[4] = 255

\* C6: when the images do not all share one size, the call ends in an error
\* and returns no composite.
C6_MismatchRejected ==
    (pc \in {"aligned", "raised"} /\ N >= 1 /\ ~SameSize) => pc = "raised"

\* C7: a ratio outside [0, 1) is rejected before any canvas is created or any
\* image is pasted; no composite is returned for it.
C7_RatioRejected ==
    (pc \in {"aligned", "raised"} /\ N >= 1 /\ ~InRange) =>
        (pc = "raised" /\ new_image = NoImage /\ offsets = <<>>)

\* C10: for same-size images and a ratio in [0, 1), every pasted image lies
\* inside the canvas: x_offset(i) + W <= canvas width.
C10_NoClipping ==
    (pc = "aligned" /\ SameSize /\ InRange) =>
        \A i \in 1..N : offsets[i][1] + W <= new_image.size[1]

\* ------------------------------------------- properties of the pipeline
IsPrefix(s, t) == Len(s) <= Len(t) /\ s = SubSeq(t, 1, Len(s))

PipelineOrder ==
    << <<"stc_to_screenshots", "lh">>, <<"convert_all", "lh">>,
       <<"stc_to_screenshots", "rh">>, <<"convert_all", "rh">>,
       <<"concatenate_hemis">>, <<"add_colorbar">> >>

\* C8: every intermediate figure a stage creates is released once it has been
\* rendered: when an invocation has returned, no figure opened by the crop or
\* by the vertical compositor is still open, however many invocations ran.
C8_FiguresReleased ==
    stage = "returned" => (openFigs.crop = 0 /\ openFigs.concat = 0)

\* C9: the stages of an invocation are called in the order render(lh),
\* convert(lh), render(rh), convert(rh), vertical compositor (lh on top, rh
\* below), legend overlay; the file is written at most once, only after the
\* vertical compositor has completed, exactly once when the invocation
\* returns, and not at all when a stage before the legend overlay fails.
C9_StageOrder ==
    /\ IsPrefix(calls, PipelineOrder)
    /\ written <= 1
    /\ written = 1 => (Len(calls) = 6 /\ concated_hemis # NoStack)
    /\ concated_hemis # NoStack =>
          (concated_hemis = [top |-> "lh", bottom |-> "rh"] /\ Len(calls) >= 5)
    /\ (stage = "raised" /\ Len(calls) < 6) => written = 0
    /\ stage = "returned" => (written = 1 /\ calls = PipelineOrder)

\* An invocation that has returned after writing its file.
C9_Witness ==
    /\ stage = "returned"
    /\ written = 1
    /\ runs = MaxRuns

====
